---- MODULE Spec2Model ----
(***************************************************************************)
(* Model of the compilation driver of crates/typst/src/lib.rs: compile(),  *)
(* typeset() (the relayout-until-convergence loop) and deduplicate().      *)
(*                                                                         *)
(* The evaluator, the layout engine, the tracer, the introspector and its  *)
(* comemo constraint live in other files of the crate; they appear here    *)
(* as the interfaces lib.rs calls.  A layout attempt is one step of the    *)
(* state machine: everything from the top of the `loop` to the next        *)
(* `break`, `?` return or loop back-edge.                                  *)
(***************************************************************************)
EXTENDS Integers, Sequences, FiniteSets, TLC

\* ------------------------------------------------------------------------
\* Bounds of the model
\* ------------------------------------------------------------------------

\* Largest number of located elements (Meta::Elem) a document carries.
MaxElems == 2

\* Largest span number of a diagnostic.
MaxSpan == 2

\* Longest diagnostic sequence handed to deduplicate on its own.
MaxLen == 3

\* Longest sequence of fatal errors returned by eval or layout.
MaxErrs == 2

\* Longest sequence of delayed errors raised by one layout attempt.
MaxDelayed == 1

\* Located elements a page frame holds before the layout breaks the page.
ElemsPerPage == 1

\* ------------------------------------------------------------------------
\* Program constants
\* ------------------------------------------------------------------------

\* `if iter >= 5`: the relayout cap.
MaxAttempts == 5


\* ------------------------------------------------------------------------
\* Diagnostics
\* ------------------------------------------------------------------------

Spans == 1..MaxSpan

MessageTable == <<"m1", "m2">>

Messages == {MessageTable[i] : i \in 1..Len(MessageTable)}

\* Fields of a SourceDiagnostic other than span and message are collapsed
\* into `hint`.
Hints == {0, 1}

SourceDiagnostic == [span : Spans, message : Messages, hint : Hints]

SeqsUpTo(S, n) == UNION {[1..k -> S] : k \in 0..n}

MsgCode(message) == CHOOSE i \in 1..Len(MessageTable) : MessageTable[i] = message

HashBase == Len(MessageTable) + 1

\* crate::util::hash128(&(&diag.span, &diag.message)): a hash of the pair,
\* free of collisions on the diagnostics of the model.
hash128(span, message) == span * HashBase + MsgCode(message)

RECURSIVE retain(_, _)
\* diags.retain(|diag| unique.insert(hash)): keep a diagnostic iff its hash
\* was not yet in `unique`, inserting it.
retain(diags, unique) ==
    IF diags = <<>> THEN <<>>
    ELSE LET hash == hash128(Head(diags).span, Head(diags).message)
         IN  IF hash \notin unique
             THEN <<Head(diags)>> \o retain(Tail(diags), unique \cup {hash})
             ELSE retain(Tail(diags), unique)

RECURSIVE retain_inverted(_, _)
\* Slip: the closure returns !unique.insert(hash).
retain_inverted(diags, unique) ==
    IF diags = <<>> THEN <<>>
    ELSE LET hash == hash128(Head(diags).span, Head(diags).message)
         IN  IF hash \in unique
             THEN <<Head(diags)>> \o retain_inverted(Tail(diags), unique)
             ELSE retain_inverted(Tail(diags), unique \cup {hash})

RECURSIVE retain_message(_, _)
\* Slip: the hash covers the message only.
retain_message(diags, unique) ==
    IF diags = <<>> THEN <<>>
    ELSE LET hash == MsgCode(Head(diags).message)
         IN  IF hash \notin unique
             THEN <<Head(diags)>> \o retain_message(Tail(diags), unique \cup {hash})
             ELSE retain_message(Tail(diags), unique)

deduplicate_inverted(diags) == retain_inverted(diags, {})

deduplicate_message(diags) == retain_message(diags, {})

\* fn deduplicate(mut diags) -> EcoVec<SourceDiagnostic>
deduplicate(diags) == retain(diags, {})

\* ------------------------------------------------------------------------
\* Documents, introspector, constraint
\* ------------------------------------------------------------------------

\* A page frame is abstracted to the number of Meta::Elem markers on it; a
\* Document is its sequence of pages.
RECURSIVE Paginate(_)
Paginate(n) ==
    IF n <= ElemsPerPage THEN <<n>>
    ELSE <<ElemsPerPage>> \o Paginate(n - ElemsPerPage)

\* `let mut document;` before the first assignment. Besides its pages a
\* document records how many Meta::Hide markers its frames hold.
NoDocument == [pages |-> <<>>, hide |-> 0]

RECURSIVE CountElems(_)
CountElems(pages) ==
    IF pages = <<>> THEN 0 ELSE Head(pages) + CountElems(Tail(pages))

\* Introspector::new(pages): harvest the located elements of all frames.
IntrospectorNew(pages) == [elems |-> CountElems(pages)]

Introspectors == [elems : 0..MaxElems]

\* The tracked introspector methods the layout may call.
Queries == {"query"}

\* The answer of an introspector to a tracked call: `query` gives the
\* located elements that match, here their number.
Answer(introspector, q) == introspector.elems

\* <Introspector as Validate>::Constraint::new()
ConstraintNew == {}

\* introspector.track_with(&constraint): every call made through the
\* tracked introspector is recorded with its answer.
Record(introspector, reads) == {<<q, Answer(introspector, q)>> : q \in reads}

\* introspector.validate(&constraint): every recorded call has the same
\* answer under this introspector.
validate(introspector, constraint) ==
    \A c \in constraint : Answer(introspector, c[1]) = c[2]

\* The content of the main module, as far as typeset can observe it: the
\* introspector calls its layout makes and the located elements of the
\* document it lays out, which depend on the introspector through those
\* calls only.
Contents ==
    {c \in [reads : SUBSET Queries, elems : [Introspectors -> 0..MaxElems]] :
        \A i, j \in Introspectors :
            (\A q \in c.reads : Answer(i, q) = Answer(j, q))
                => c.elems[i] = c.elems[j]}

\* The frames as the layout composes them: the content places MaxElems
\* locatable elements and wraps those it hides (which ones depends on the
\* introspector) in a region tagged Meta::Hide.
Compose(content, introspector) ==
    [pages |-> Paginate(MaxElems),
     hide |-> MaxElems - content.elems[introspector]]

\* Frame finalization: a region tagged Meta::Hide is removed alongside the
\* content that should be hidden.
Finalize(frames) ==
    [pages |-> Paginate(CountElems(frames.pages) - frames.hide), hide |-> 0]

\* Slip: the hidden regions stay in the frames.
layout_root_unstripped(content, introspector) ==
    [pages |-> Paginate(content.elems[introspector]),
     hide |-> Compose(content, introspector).hide]

\* content.layout_root(&mut engine, styles) when it returns Ok.
layout_root(content, introspector) == Finalize(Compose(content, introspector))

\* ------------------------------------------------------------------------
\* Locator
\* ------------------------------------------------------------------------

\* Locator::new(): no location handed out yet. A Location is the hash of
\* the element plus a disambiguator among identically keyed elements; the
\* located elements of the model share one key, so the disambiguator is
\* all that tells them apart.
LocatorNew == [handed |-> 0]

\* The locations the locator hands to n elements in traversal order.
Locate(locator, n) == [j \in 1..n |-> locator.handed + j]

\* The locator after n elements were located.
Located(locator, n) == [handed |-> locator.handed + n]

\* ------------------------------------------------------------------------
\* Tracer
\* ------------------------------------------------------------------------

\* Tracer::new()
TracerNew == [delayed |-> <<>>, warnings |-> {}]

\* tracer.delayed(): take the delayed errors, leaving none behind.
TracerDelayed(t) == [t EXCEPT !.delayed = <<>>]

\* Engine::delayed / Tracer::delay: append delayed errors.
TracerDelay(t, errors) == [t EXCEPT !.delayed = @ \o errors]

\* tracer.warn(warning)
TracerWarn(t, ws) == [t EXCEPT !.warnings = @ \cup ws]

\* warning!(Span::detached(), "layout did not converge within 5 attempts")
NonConvergence ==
    [span |-> 0, message |-> "layout did not converge within 5 attempts",
     hint |-> 1]

LayoutWarning == [span |-> 1, message |-> "w1", hint |-> 0]

EvalWarning == [span |-> 2, message |-> "w2", hint |-> 0]

\* Diagnostics a delayed error can be: two with different spans.
DelayedDiags ==
    {d \in SourceDiagnostic :
        d.message = "m1" /\ d.hint = 0 /\ d.span \in {1, MaxSpan}}

DelayedSeqs == SeqsUpTo(DelayedDiags, MaxDelayed)

\* Delayed errors the caller's tracer may hold when compile is entered.
PendingSeqs == {<<>>} \cup {<<d>> : d \in DelayedDiags}

\* Diagnostics a fatal error can be: two that differ in the hint only.
ErrDiags == {d \in SourceDiagnostic : d.message = "m2" /\ d.span = 1}

\* Non-empty error sequences of a failed eval.
ErrSeqs == SeqsUpTo(ErrDiags, MaxErrs) \ {<<>>}

\* Non-empty error sequences of a failed layout: one error, possibly
\* reported several times.
FatalSeqs ==
    SeqsUpTo({d \in ErrDiags : d.hint = 0}, MaxErrs) \ {<<>>}

\* SourceResult<Document>
None == [kind |-> "none", doc |-> NoDocument, errs |-> <<>>]

Ok(doc) == [kind |-> "Ok", doc |-> doc, errs |-> <<>>]

Err(errs) == [kind |-> "Err", doc |-> NoDocument, errs |-> errs]

\* Slip: `.map_err(deduplicate)` is left out.
map_err_left_out(r) == r

\* result.map_err(deduplicate)
map_err(r) == IF r.kind = "Err" THEN Err(deduplicate(r.errs)) ELSE r

Range(s) == {s[i] : i \in 1..Len(s)}

\* ------------------------------------------------------------------------
\* World
\* ------------------------------------------------------------------------

\* What a call of eval or of layout_root gave: Ok or Err, the warnings it
\* handed to the tracer, the errors it delayed and the errors it failed with.
Outcome(kind, ws, delayed, errors) ==
    [kind |-> kind, ws |-> ws, delayed |-> delayed, errors |-> errors]

Unasked == Outcome("unasked", {}, <<>>, <<>>)

\* A world of which nothing is fixed: every call may give any outcome.
AnyWorld == [free |-> TRUE]

\* One world, not yet asked anything: eval and layout_root are functions of
\* their inputs, so an outcome once given is given again for the same input.
OneWorld ==
    [free |-> FALSE, eval |-> Unasked,
     layout |-> [i \in Introspectors |-> Unasked]]

\* The outcomes of eval in one world.
EvalMenu ==
    {Outcome("Ok", {EvalWarning}, <<>>, <<>>),
     Outcome("Err", {}, <<>>, <<[span |-> 1, message |-> "m2", hint |-> 0]>>)}

\* The outcomes of layout_root in one world.
LayoutMenu ==
    {Outcome("Ok", {}, <<>>, <<>>),
     Outcome("Ok", {LayoutWarning},
             <<[span |-> 1, message |-> "m1", hint |-> 0]>>, <<>>),
     Outcome("Err", {}, <<>>, <<[span |-> 1, message |-> "m2", hint |-> 0]>>)}

\* The result of an earlier compile, kept for comparison.
NoFirst == [result |-> None, attempts |-> 0, warnings |-> {}]

\* ------------------------------------------------------------------------
\* State
\* ------------------------------------------------------------------------

VARIABLES
    pc,           \* position in compile/typeset: "compile", "loop", "after", "done"
    content,      \* module.content() of the world's main source
    tracer,       \* the caller's &mut Tracer
    iter,         \* typeset: let mut iter
    document,     \* typeset: let mut document
    introspector, \* typeset: let mut introspector
    constraint,   \* typeset: the constraint of the current attempt
    locator,      \* typeset: the locator of the current attempt
    ret,          \* what typeset returned
    result,       \* what compile returned
    attempts,     \* history: calls of layout_root
    built,        \* history: introspectors built from a document
    validations,  \* history: calls of introspector.validate
    lastValid,    \* history: outcome of the latest validate
    consulted,    \* history: the introspector the latest layout read
    prior,        \* history: introspector of the document on hand when the
                  \* latest attempt started
    stale,        \* history: facts recorded by attempts before the latest
    locations,    \* history: Locations of the elements of the latest layout
    previous,     \* history: Locations of the elements of the layout before
    takes,        \* history: calls of tracer.delayed()
    nonconv,      \* history: times the non-convergence warning was issued
    emitted,      \* history: every warning handed to the tracer
    lastDelayed,  \* history: delayed errors raised by the latest attempt
    earlier,      \* history: delayed errors raised before the latest attempt
    outcome,      \* history: which path compile took
    raised,       \* history: errors of the failed eval or layout
    world,        \* the World: the outcomes its calls have given so far
    run,          \* which call of compile this is
    first,        \* history: what the first call of compile returned
    diags,        \* deduplicate on its own: the input
    once,         \* deduplicate(diags)
    twice,        \* deduplicate(deduplicate(diags))
    dpc           \* deduplicate on its own: "input", "once", "twice"

typesetVars == <<iter, document, introspector, constraint, locator, ret>>

locVars == <<locator, locations, previous>>

historyVars == <<attempts, built, validations, lastValid, consulted, prior,
                 stale, locations, previous, takes, nonconv, emitted, lastDelayed, earlier,
                 outcome, raised>>

dedupVars == <<diags, once, twice, dpc>>

callVars == <<run, first>>

vars == <<pc, content, tracer, typesetVars, result, historyVars, dedupVars,
          world, callVars>>

InitCompile ==
    /\ pc = "compile"
    /\ content \in Contents
    \* the tracer is the caller's: it may carry delayed errors already
    /\ \E delayed \in PendingSeqs : tracer = TracerDelay(TracerNew, delayed)
    /\ iter = 0
    /\ document = NoDocument
    /\ introspector = IntrospectorNew(<<>>)
    /\ constraint = ConstraintNew
    /\ locator = LocatorNew
    /\ locations = <<>>
    /\ previous = <<>>
    /\ ret = None
    /\ result = None
    /\ attempts = 0
    /\ built = 0
    /\ validations = 0
    /\ lastValid = FALSE
    /\ consulted = IntrospectorNew(<<>>)
    /\ prior = IntrospectorNew(<<>>)
    /\ stale = {}
    /\ takes = 0
    /\ nonconv = 0
    /\ emitted = {}
    /\ lastDelayed = <<>>
    /\ earlier = Range(tracer.delayed)
    /\ outcome = "none"
    /\ raised = <<>>
    /\ run = 1
    /\ first = NoFirst

IdleDedup ==
    /\ diags = <<>>
    /\ once = <<>>
    /\ twice = <<>>
    /\ dpc = "idle"

Init == InitCompile /\ IdleDedup /\ world = AnyWorld

\* What the layout read of the introspector: nothing, or its answer.
ReadKey ==
    IF content.reads = {} THEN IntrospectorNew(<<>>) ELSE introspector

\* eval gives `out`: any outcome, or the one this world gave before.
Evaluated(out) ==
    /\ IF world.free THEN TRUE
       ELSE out \in EvalMenu /\ world.eval \in {Unasked, out}
    /\ world' = IF world.free THEN world ELSE [world EXCEPT !.eval = out]

\* layout_root gives `out`: any outcome, or the one this world gave before
\* for what the layout reads.
Laid(out) ==
    /\ IF world.free THEN TRUE
       ELSE out \in LayoutMenu /\ world.layout[ReadKey] \in {Unasked, out}
    /\ world' = IF world.free THEN world
                ELSE [world EXCEPT !.layout[ReadKey] = out]

\* ------------------------------------------------------------------------
\* compile
\* ------------------------------------------------------------------------

\* Slip: the errors of eval are returned without `.map_err(deduplicate)`.
EvalErr_raw ==
    /\ pc = "compile"
    /\ \E errors \in ErrSeqs, ws \in SUBSET {EvalWarning} :
        /\ Evaluated(Outcome("Err", ws, <<>>, errors))
        /\ tracer' = TracerWarn(tracer, ws)
        /\ emitted' = emitted \cup ws
        /\ raised' = errors
        /\ result' = Err(errors)
    /\ outcome' = "eval"
    /\ pc' = "done"
    /\ UNCHANGED <<content, typesetVars, locations, previous, attempts, built, validations,
                   lastValid, consulted, prior, stale,
                   takes, nonconv, lastDelayed, earlier,
                   dedupVars, callVars>>

\* crate::eval::eval(..) fails: `.map_err(deduplicate)?`
EvalErr ==
    /\ pc = "compile"
    /\ \E errors \in ErrSeqs, ws \in SUBSET {EvalWarning} :
        /\ Evaluated(Outcome("Err", ws, <<>>, errors))
        /\ tracer' = TracerWarn(tracer, ws)
        /\ emitted' = emitted \cup ws
        /\ raised' = errors
        /\ result' = map_err(Err(errors))
    /\ outcome' = "eval"
    /\ pc' = "done"
    /\ UNCHANGED <<content, typesetVars, locations, previous, attempts, built, validations,
                   lastValid, consulted, prior, stale,
                   takes, nonconv, lastDelayed, earlier, dedupVars, callVars>>

\* Slip: the introspector outlives the call and is not built anew on entry.
EvalOk_kept ==
    /\ pc = "compile"
    /\ \E ws \in SUBSET {EvalWarning} :
        /\ Evaluated(Outcome("Ok", ws, <<>>, <<>>))
        /\ tracer' = TracerWarn(tracer, ws)
        /\ emitted' = emitted \cup ws
    /\ iter' = 0
    /\ introspector' = introspector
    /\ pc' = "loop"
    /\ UNCHANGED <<content, document, constraint, locVars, ret, result,
                   attempts, built,
                   validations, lastValid, consulted, prior, stale,
                   takes, nonconv, lastDelayed,
                   earlier, outcome, raised, dedupVars, callVars>>

\* eval succeeds; typeset is entered and runs up to the top of its loop.
EvalOk ==
    /\ pc = "compile"
    /\ \E ws \in SUBSET {EvalWarning} :
        /\ Evaluated(Outcome("Ok", ws, <<>>, <<>>))
        /\ tracer' = TracerWarn(tracer, ws)
        /\ emitted' = emitted \cup ws
    /\ iter' = 0
    /\ introspector' = IntrospectorNew(<<>>)
    /\ pc' = "loop"
    /\ UNCHANGED <<content, document, constraint, locVars, ret, result,
                   attempts, built,
                   validations, lastValid, consulted, prior, stale,
                   takes, nonconv, lastDelayed,
                   earlier, outcome, raised, dedupVars, callVars>>

\* ------------------------------------------------------------------------
\* typeset: one pass of the loop
\* ------------------------------------------------------------------------

\* Slip: the delayed errors are not cleared at the top of the loop.
ClearDelayed_skipped(t) == t

\* Slip: the top of the loop starts over with a new tracer.
ClearDelayed_reset(t) == TracerNew

\* `tracer.delayed();` at the top of the loop: clear delayed errors.
ClearDelayed(t) == TracerDelayed(t)

\* Slip: the loop breaks when the introspector itself did not change.
Converged_same(intro, c) == intro = introspector

\* Slip: the condition is inverted, `if !introspector.validate(..)`.
Converged_negated(intro, c) == ~validate(intro, c)

\* Slip: the loop breaks without looking at the outcome of validate.
Converged_ignored(intro, c) == TRUE

\* `if introspector.validate(&constraint) { break; }`
Converged(intro, c) == validate(intro, c)

\* Slip: off by one, a sixth attempt is started.
GiveUp_late(i) == i > MaxAttempts

\* Slip: the cap is checked before the counter is read correctly.
GiveUp_early(i) == i + 1 >= MaxAttempts

\* `if iter >= 5`
GiveUp(i) == i >= MaxAttempts

\* The tracer after layout_root ran in this pass: cleared at the top, then
\* whatever the layout warned about and delayed.
Layouted(ws, delayed) ==
    TracerDelay(TracerWarn(ClearDelayed(tracer), ws), delayed)

\* The document of this pass and the introspector built from it.
NewDocument == layout_root(content, introspector)

NewIntrospector == IntrospectorNew(NewDocument.pages)

\* Slip: the engine gets `introspector.track()`, nothing is recorded.
NewConstraint_untracked == ConstraintNew

\* Slip: the constraint is created once, before the loop.
NewConstraint_accumulated == constraint \cup Record(introspector, content.reads)

\* Slip: the locator is created once, before the loop.
NewLocator_reused == locator

\* `let mut locator = Locator::new();` inside the loop.
NewLocator == LocatorNew

\* The constraint of this pass: fresh, then filled by the layout's calls.
NewConstraint == ConstraintNew \cup Record(introspector, content.reads)

\* History variables of a pass in which layout_root was called.
Attempted(ws, delayed) ==
    /\ attempts' = attempts + 1
    /\ consulted' = introspector
    /\ prior' = IntrospectorNew(document.pages)
    /\ stale' = IF attempts = 0 THEN {}
              ELSE stale \cup Record(consulted, content.reads)
    /\ takes' = takes + 1
    /\ emitted' = emitted \cup ws
    /\ earlier' = earlier \cup Range(lastDelayed)
    /\ lastDelayed' = delayed

\* Slip: `let introspector = Introspector::new(..)` shadows the variable
\* the next pass reads.
Validated_shadowed ==
    /\ document' = NewDocument
    /\ introspector' = introspector
    /\ constraint' = NewConstraint
    /\ locator' = Located(NewLocator, CountElems(NewDocument.pages))
    /\ locations' = Locate(NewLocator, CountElems(NewDocument.pages))
    /\ previous' = locations
    /\ iter' = iter + 1
    /\ built' = built + 1
    /\ validations' = validations + 1
    /\ lastValid' = validate(NewIntrospector, NewConstraint)

\* History and typeset variables of a pass in which layout_root returned Ok.
Validated ==
    /\ document' = NewDocument
    /\ introspector' = NewIntrospector
    /\ constraint' = NewConstraint
    /\ locator' = Located(NewLocator, CountElems(NewDocument.pages))
    /\ locations' = Locate(NewLocator, CountElems(NewDocument.pages))
    /\ previous' = locations
    /\ iter' = iter + 1
    /\ built' = built + 1
    /\ validations' = validations + 1
    /\ lastValid' = validate(NewIntrospector, NewConstraint)

\* Slip: the delayed errors of the failed attempt are returned as well.
LayoutFatal_merged ==
    /\ pc = "loop"
    /\ \E errors \in FatalSeqs, ws \in SUBSET {LayoutWarning},
          delayed \in DelayedSeqs :
        /\ Laid(Outcome("Err", ws, delayed, errors))
        /\ tracer' = Layouted(ws, delayed)
        /\ Attempted(ws, delayed)
        /\ ret' = Err(errors \o delayed)
        /\ result' = map_err(Err(errors \o delayed))
        /\ raised' = errors
    /\ constraint' = NewConstraint
    /\ locator' = NewLocator
    /\ outcome' = "fatal"
    /\ pc' = "done"
    /\ UNCHANGED <<content, iter, document, introspector, locations, previous,
                   built, validations,
                   lastValid, nonconv, dedupVars, callVars>>

\* `document = content.layout_root(&mut engine, styles)?;` returns early.
LayoutFatal ==
    /\ pc = "loop"
    /\ \E errors \in FatalSeqs, ws \in SUBSET {LayoutWarning},
          delayed \in DelayedSeqs :
        /\ Laid(Outcome("Err", ws, delayed, errors))
        /\ tracer' = Layouted(ws, delayed)
        /\ Attempted(ws, delayed)
        /\ ret' = Err(errors)
        /\ result' = map_err(Err(errors))
        /\ raised' = errors
    /\ constraint' = NewConstraint
    /\ locator' = NewLocator
    /\ outcome' = "fatal"
    /\ pc' = "done"
    /\ UNCHANGED <<content, iter, document, introspector, locations, previous,
                   built, validations,
                   lastValid, nonconv, dedupVars, callVars>>

\* The layout succeeds and its constraint validates: break.
LayoutConverged ==
    /\ pc = "loop"
    /\ Converged(NewIntrospector, NewConstraint)
    /\ \E ws \in SUBSET {LayoutWarning}, delayed \in DelayedSeqs :
        /\ Laid(Outcome("Ok", ws, delayed, <<>>))
        /\ tracer' = Layouted(ws, delayed)
        /\ Attempted(ws, delayed)
    /\ Validated
    /\ pc' = "after"
    /\ UNCHANGED <<content, ret, result, nonconv, outcome, raised, dedupVars, callVars>>

\* The layout succeeds, validation fails, iter < 5: back to the top.
LayoutRetry ==
    /\ pc = "loop"
    /\ ~Converged(NewIntrospector, NewConstraint)
    /\ ~GiveUp(iter + 1)
    /\ \E ws \in SUBSET {LayoutWarning}, delayed \in DelayedSeqs :
        /\ Laid(Outcome("Ok", ws, delayed, <<>>))
        /\ tracer' = Layouted(ws, delayed)
        /\ Attempted(ws, delayed)
    /\ Validated
    /\ pc' = "loop"
    /\ UNCHANGED <<content, ret, result, nonconv, outcome, raised, dedupVars, callVars>>

\* Slip: at the cap the document is returned on the spot.
LayoutGiveUp_returns ==
    /\ pc = "loop"
    /\ ~Converged(NewIntrospector, NewConstraint)
    /\ GiveUp(iter + 1)
    /\ \E ws \in SUBSET {LayoutWarning}, delayed \in DelayedSeqs :
        /\ Laid(Outcome("Ok", ws, delayed, <<>>))
        /\ tracer' = TracerWarn(Layouted(ws, delayed), {NonConvergence})
        /\ Attempted(ws \cup {NonConvergence}, delayed)
    /\ Validated
    /\ nonconv' = nonconv + 1
    /\ ret' = Ok(NewDocument)
    /\ result' = map_err(Ok(NewDocument))
    /\ outcome' = "ok"
    /\ pc' = "done"
    /\ UNCHANGED <<content, raised, dedupVars, callVars>>

\* The layout succeeds, validation fails, iter >= 5: warn and break.
LayoutGiveUp ==
    /\ pc = "loop"
    /\ ~Converged(NewIntrospector, NewConstraint)
    /\ GiveUp(iter + 1)
    /\ \E ws \in SUBSET {LayoutWarning}, delayed \in DelayedSeqs :
        /\ Laid(Outcome("Ok", ws, delayed, <<>>))
        /\ tracer' = TracerWarn(Layouted(ws, delayed), {NonConvergence})
        /\ Attempted(ws \cup {NonConvergence}, delayed)
    /\ Validated
    /\ nonconv' = nonconv + 1
    /\ pc' = "after"
    /\ UNCHANGED <<content, ret, result, outcome, raised, dedupVars, callVars>>

\* ------------------------------------------------------------------------
\* typeset: after the loop
\* ------------------------------------------------------------------------

\* Slip: the delayed errors are dropped and the document returned.
PromoteDelayed_dropped ==
    /\ pc = "after"
    /\ tracer.delayed # <<>>
    /\ tracer' = TracerDelayed(tracer)
    /\ takes' = takes + 1
    /\ ret' = Ok(document)
    /\ result' = map_err(Ok(document))
    /\ outcome' = "ok"
    /\ pc' = "done"
    /\ UNCHANGED <<content, iter, document, introspector, constraint, locVars,
                   attempts,
                   built, validations, lastValid, consulted, prior, stale,
                   nonconv, emitted,
                   lastDelayed, earlier, raised, dedupVars, world, callVars>>

\* `if !delayed.is_empty() { return Err(delayed); }`
PromoteDelayed ==
    /\ pc = "after"
    /\ tracer.delayed # <<>>
    /\ tracer' = TracerDelayed(tracer)
    /\ takes' = takes + 1
    /\ ret' = Err(tracer.delayed)
    /\ result' = map_err(Err(tracer.delayed))
    /\ outcome' = "delayed"
    /\ pc' = "done"
    /\ UNCHANGED <<content, iter, document, introspector, constraint, locVars,
                   attempts,
                   built, validations, lastValid, consulted, prior, stale,
                   nonconv, emitted,
                   lastDelayed, earlier, raised, dedupVars, world, callVars>>

\* `Ok(document)`
ReturnDocument ==
    /\ pc = "after"
    /\ tracer.delayed = <<>>
    /\ tracer' = TracerDelayed(tracer)
    /\ takes' = takes + 1
    /\ ret' = Ok(document)
    /\ result' = map_err(Ok(document))
    /\ outcome' = "ok"
    /\ pc' = "done"
    /\ UNCHANGED <<content, iter, document, introspector, constraint, locVars,
                   attempts,
                   built, validations, lastValid, consulted, prior, stale,
                   nonconv, emitted,
                   lastDelayed, earlier, raised, dedupVars, world, callVars>>

Next ==
    \/ EvalErr
    \/ EvalOk
    \/ LayoutFatal
    \/ LayoutConverged
    \/ LayoutRetry
    \/ LayoutGiveUp
    \/ PromoteDelayed
    \/ ReturnDocument

Spec == Init /\ [][Next]_vars

\* compile is straight-line code: a step that can be taken is taken.
FairSpec == Spec /\ WF_vars(Next)

\* ------------------------------------------------------------------------
\* compile called twice on one world
\* ------------------------------------------------------------------------

\* The caller keeps what the first call returned and calls compile again,
\* on the same world and with a new tracer, as it did the first time. The
\* locals of typeset are new variables: they hold whatever the stack holds
\* until typeset assigns them.
CompileAgain ==
    /\ pc = "done"
    /\ run = 1
    /\ run' = 2
    /\ first' = [result |-> result, attempts |-> attempts,
                 warnings |-> tracer.warnings]
    /\ tracer' = TracerNew
    /\ pc' = "compile"
    /\ ret' = None
    /\ result' = None
    /\ attempts' = 0
    /\ built' = 0
    /\ validations' = 0
    /\ lastValid' = FALSE
    /\ consulted' = IntrospectorNew(<<>>)
    /\ prior' = IntrospectorNew(<<>>)
    /\ stale' = {}
    /\ locations' = <<>>
    /\ previous' = <<>>
    /\ takes' = 0
    /\ nonconv' = 0
    /\ emitted' = {}
    /\ lastDelayed' = <<>>
    /\ earlier' = {}
    /\ outcome' = "none"
    /\ raised' = <<>>
    /\ UNCHANGED <<content, iter, document, introspector, constraint, locator,
                   world, dedupVars>>

InitTwice ==
    /\ InitCompile
    /\ IdleDedup
    /\ tracer = TracerNew
    /\ world = OneWorld

NextTwice == Next \/ CompileAgain

SpecTwice == InitTwice /\ [][NextTwice]_vars

\* ------------------------------------------------------------------------
\* deduplicate on its own
\* ------------------------------------------------------------------------

IdleCompile ==
    /\ pc = "idle"
    /\ content = [reads |-> {}, elems |-> [i \in Introspectors |-> 0]]
    /\ tracer = TracerNew
    /\ iter = 0
    /\ document = NoDocument
    /\ introspector = IntrospectorNew(<<>>)
    /\ constraint = ConstraintNew
    /\ locator = LocatorNew
    /\ locations = <<>>
    /\ previous = <<>>
    /\ ret = None
    /\ result = None
    /\ attempts = 0
    /\ built = 0
    /\ validations = 0
    /\ lastValid = FALSE
    /\ consulted = IntrospectorNew(<<>>)
    /\ prior = IntrospectorNew(<<>>)
    /\ stale = {}
    /\ takes = 0
    /\ nonconv = 0
    /\ emitted = {}
    /\ lastDelayed = <<>>
    /\ earlier = {}
    /\ outcome = "none"
    /\ raised = <<>>
    /\ run = 1
    /\ first = NoFirst

InitDedup ==
    /\ IdleCompile
    /\ world = AnyWorld
    /\ diags \in SeqsUpTo(SourceDiagnostic, MaxLen)
    /\ once = <<>>
    /\ twice = <<>>
    /\ dpc = "input"

compileVars == <<pc, content, tracer, typesetVars, result, historyVars,
                 world, callVars>>

\* deduplicate(X)
DedupOnce ==
    /\ dpc = "input"
    /\ once' = deduplicate(diags)
    /\ dpc' = "once"
    /\ UNCHANGED <<diags, twice, compileVars>>

\* deduplicate(deduplicate(X))
DedupTwice ==
    /\ dpc = "once"
    /\ twice' = deduplicate(once)
    /\ dpc' = "twice"
    /\ UNCHANGED <<diags, once, compileVars>>

NextDedup == DedupOnce \/ DedupTwice

SpecDedup == InitDedup /\ [][NextDedup]_vars

\* ------------------------------------------------------------------------
\* Properties
\* ------------------------------------------------------------------------

Returned == pc = "done"

\* C1: when evaluation succeeds, compile runs at least one and at most five
\* layout attempts and then returns; a sixth attempt is never started.
C1_AttemptBound ==
    /\ [](attempts <= 5)
    /\ []((Returned /\ outcome # "eval") => attempts >= 1)
    /\ <>Returned

C1_Witness == Returned /\ outcome = "ok" /\ attempts = 5 /\ nonconv = 1

\* C2: if compile returns Ok(document) and the non-convergence warning was
\* not issued, the document is the one laid out by the last attempt, and the
\* constraint recorded during that attempt validates against the introspector
\* built from that document's pages.
C2_Fixpoint ==
    (Returned /\ result.kind = "Ok" /\ nonconv = 0) =>
        /\ attempts >= 1
        /\ result.doc = layout_root(content, consulted)
        /\ constraint = Record(consulted, content.reads)
        /\ validate(IntrospectorNew(result.doc.pages), constraint)

C2_Witness ==
    /\ Returned /\ result.kind = "Ok" /\ nonconv = 0
    /\ attempts >= 2
    /\ content.reads # {}
    /\ IntrospectorNew(result.doc.pages) # IntrospectorNew(<<>>)

RECURSIVE Trajectory(_, _)
\* The introspector built from the document of attempt k (k = 0: the empty
\* one the first attempt reads), when every layout attempt returns Ok.
Trajectory(c, k) ==
    IF k = 0 THEN IntrospectorNew(<<>>)
    ELSE IntrospectorNew(layout_root(c, Trajectory(c, k - 1)).pages)

\* The constraint of no attempt validates.
NeverValidates(c) ==
    \A k \in 1..5 :
        ~validate(Trajectory(c, k), Record(Trajectory(c, k - 1), c.reads))

\* C4 as stated: for a document whose constraint never validates (every
\* attempt is laid out and fails validation) the driver hits the cap of 5,
\* issues the warning and returns the fifth document.
C4_Original ==
    (Returned /\ outcome \notin {"eval", "fatal"} /\ NeverValidates(content)) =>
        /\ attempts = 5
        /\ nonconv = 1
        /\ result = Ok(layout_root(content, Trajectory(content, 4)))

\* C4 as amended: for a document whose constraint never validates (every
\* attempt is laid out and fails validation) the driver runs five attempts
\* and issues the warning; it returns the fifth document if the fifth
\* attempt left no delayed errors, and those delayed errors as Err otherwise.
C4_CapReached ==
    (Returned /\ outcome \notin {"eval", "fatal"} /\ NeverValidates(content)) =>
        /\ attempts = 5
        /\ nonconv = 1
        /\ NonConvergence \in tracer.warnings
        /\ IF lastDelayed = <<>>
           THEN result = Ok(layout_root(content, Trajectory(content, 4)))
           ELSE result = Err(deduplicate(lastDelayed))

C4_Witness ==
    /\ Returned /\ NeverValidates(content) /\ attempts = 5
    /\ result.kind = "Ok"
    /\ result.doc = layout_root(content, Trajectory(content, 4))

\* C5: delayed errors are cleared at the top of every attempt, so what
\* typeset promotes after the loop is exactly what the last attempt delayed;
\* an error delayed only earlier never shows up, and without delayed errors
\* the result is Ok(document).
C5_DelayedTentative ==
    /\ (pc = "after") => tracer.delayed = lastDelayed
    /\ (Returned /\ outcome \in {"ok", "delayed"}) =>
        /\ takes = attempts + 1
        /\ IF lastDelayed # <<>>
           THEN /\ ret = Err(lastDelayed)
                /\ result = Err(deduplicate(lastDelayed))
                /\ \A d \in earlier \ Range(lastDelayed) :
                       d \notin Range(result.errs)
           ELSE /\ ret = Ok(document)
                /\ result = Ok(document)

C5_Witness ==
    /\ Returned /\ outcome = "delayed" /\ attempts >= 2
    /\ earlier \ Range(lastDelayed) # {}

\* C6: a fatal error of layout in attempt k (1..5) makes typeset return Err
\* with exactly those errors at once: no introspector is built from that
\* attempt, nothing is validated, no further attempt starts, the
\* non-convergence warning is not issued and the delayed errors pending in
\* the tracer are not merged into the returned errors.
C6_FatalShortCircuit ==
    (Returned /\ outcome = "fatal") =>
        /\ attempts \in 1..5
        /\ ret = Err(raised)
        /\ result = Err(deduplicate(raised))
        /\ built = attempts - 1
        /\ validations = attempts - 1
        /\ iter = attempts - 1
        /\ takes = attempts
        /\ nonconv = 0
        /\ NonConvergence \notin tracer.warnings
        /\ tracer.delayed = lastDelayed
        /\ Range(lastDelayed) \cap Range(ret.errs) = {}
        /\ ~ENABLED Next

C6_Witness ==
    /\ Returned /\ outcome = "fatal"
    /\ attempts = 5
    /\ lastDelayed # <<>>

\* C7: if evaluation fails, compile returns the deduplicated evaluation
\* diagnostics as Err with no layout attempt: typeset is not entered, no
\* introspector is built, no delayed error is cleared or promoted.
C7_EvalFailure ==
    (Returned /\ outcome = "eval") =>
        /\ result = Err(deduplicate(raised))
        /\ ret = None
        /\ attempts = 0
        /\ built = 0
        /\ validations = 0
        /\ takes = 0
        /\ document = NoDocument
        /\ Range(tracer.delayed) = earlier
        /\ ~ENABLED Next

C7_Witness ==
    /\ Returned /\ outcome = "eval"
    /\ Len(result.errs) < Len(raised)
    /\ tracer.delayed # <<>>

\* C8: every warning issued during evaluation or a layout attempt, the
\* non-convergence warning included, is still in the tracer afterwards,
\* whether compile returns Ok or Err; clearing and promoting delayed errors
\* removes none.
C8_WarningsRetained == emitted \subseteq tracer.warnings

C8_Witness ==
    /\ Returned /\ outcome = "delayed"
    /\ emitted = {EvalWarning, LayoutWarning, NonConvergence}

Key(d) == <<d.span, d.message>>

\* Positions of the first diagnostic of every (span, message) key.
FirstOfKey(s) ==
    {i \in 1..Len(s) : \A j \in 1..(i - 1) : Key(s[j]) # Key(s[i])}

\* C9: deduplicate keeps exactly the first diagnostic of every distinct
\* (span, message) key, in the original order; diagnostics that differ in
\* other fields only are duplicates.
C9_FirstOccurrenceKept ==
    (dpc \in {"once", "twice"}) =>
        /\ Len(once) = Cardinality(FirstOfKey(diags))
        /\ \E f \in [1..Len(once) -> FirstOfKey(diags)] :
            /\ \A a, b \in 1..Len(once) : a < b => f[a] < f[b]
            /\ \A a \in 1..Len(once) : once[a] = diags[f[a]]

C9_Witness ==
    /\ dpc = "once"
    /\ Len(diags) = 3
    /\ Key(diags[1]) = Key(diags[3]) /\ diags[1] # diags[3]
    /\ Key(diags[2]) # Key(diags[1])
    /\ once = <<diags[1], diags[2]>>

\* C10: deduplicate(deduplicate(X)) = deduplicate(X).
C10_Idempotent == (dpc = "twice") => twice = once

C10_Witness ==
    /\ dpc = "twice"
    /\ Len(once) < Len(diags)
    /\ Len(once) >= 2

\* The (span, message) keys of a diagnostic sequence.
Keys(s) == {Key(s[i]) : i \in 1..Len(s)}

\* Two diagnostics of the sequence have the same (span, message).
HasDuplicate(s) ==
    \E i, j \in 1..Len(s) : i < j /\ Key(s[i]) = Key(s[j])

C12_ConstraintSound ==
    (validations >= 1 /\ lastValid) =>
        /\ layout_root(content, introspector) = document
        /\ Record(introspector, content.reads) = constraint

C12_Witness ==
    /\ Returned /\ lastValid /\ result.kind = "Ok"
    /\ introspector # consulted

\* C14: an attempt that consults no introspector fact validates against
\* whatever introspector is built afterwards, so a document without queries
\* is compiled in exactly one layout attempt, without the non-convergence
\* warning.
C14_NoQueriesOneAttempt ==
    /\ (validations >= 1 /\ validations = attempts
            /\ Record(consulted, content.reads) = {}) => lastValid
    /\ (Returned /\ outcome # "eval" /\ content.reads = {}) =>
        /\ attempts = 1
        /\ nonconv = 0
        /\ NonConvergence \notin tracer.warnings

C14_Witness ==
    /\ Returned /\ outcome = "ok" /\ content.reads = {}
    /\ attempts = 1
    /\ IntrospectorNew(result.doc.pages) # consulted

\* A document whose only introspection is query(heading) and whose headings
\* do not depend on the answer.
IsToc(c) ==
    /\ c.reads = {"query"}
    /\ \A i, j \in Introspectors : c.elems[i] = c.elems[j]

\* C15: such a document converges in at most 3 layout attempts and never
\* gets the non-convergence warning.
C15_TocConverges ==
    (Returned /\ outcome # "eval" /\ IsToc(content)) =>
        /\ attempts <= 3
        /\ nonconv = 0
        /\ outcome # "fatal" => lastValid

C15_Witness ==
    /\ Returned /\ outcome = "ok" /\ IsToc(content)
    /\ attempts >= 2
    /\ consulted # IntrospectorNew(<<>>)
    /\ constraint # Record(IntrospectorNew(<<>>), content.reads)

\* C18: the first attempt reads the introspector built from no pages; every
\* later attempt reads exactly the one built from the document of the
\* attempt before it; validation after an attempt is against the
\* introspector built from that attempt's own document.
C18_IntrospectorChain ==
    /\ attempts = 1 => consulted = IntrospectorNew(<<>>)
    /\ attempts >= 1 => consulted = prior
    /\ introspector = IntrospectorNew(document.pages)
    /\ (validations >= 1 /\ validations = attempts) =>
        lastValid = validate(IntrospectorNew(document.pages), constraint)

C18_Witness ==
    /\ attempts >= 3 /\ validations = attempts
    /\ consulted # IntrospectorNew(<<>>)
    /\ consulted # introspector

\* C19: the constraint of an attempt starts empty, so what is validated
\* after attempt k are the facts consulted during attempt k only; a fact
\* consulted only in an earlier attempt cannot make the validation fail or
\* force another attempt.
C19_FreshConstraint ==
    /\ attempts >= 1 => constraint = Record(consulted, content.reads)
    /\ (validations >= 1 /\ validations = attempts) =>
        lastValid = validate(introspector, Record(consulted, content.reads))
    /\ (pc = "loop" /\ attempts >= 1) =>
        ~validate(introspector, Record(consulted, content.reads))

C19_Witness ==
    /\ Returned /\ lastValid
    /\ \E f \in stale \ constraint : ~validate(introspector, {f})

\* C20: when the loop ends at the cap and the fifth attempt left delayed
\* errors, compile returns Err with those errors, not the document, and the
\* non-convergence warning is in the tracer all the same; at the cap the
\* document is returned only if no delayed error is present.
C20_CapWithDelayed ==
    (Returned /\ nonconv >= 1) =>
        /\ NonConvergence \in tracer.warnings
        /\ attempts = 5
        /\ lastDelayed # <<>> =>
               /\ result = Err(deduplicate(lastDelayed))
               /\ outcome = "delayed"
        /\ lastDelayed = <<>> => result = Ok(document)

C20_Witness ==
    /\ Returned /\ nonconv = 1 /\ outcome = "delayed"
    /\ result.kind = "Err"
    /\ Range(result.errs) \subseteq Range(lastDelayed)
    /\ document # NoDocument

\* C13: when typeset lays out the same content in several attempts, an
\* element gets the same Location in every attempt, the locator being
\* created anew at the start of each.
C13_LocationStable ==
    /\ validations >= 1 =>
        /\ Len(locations) = CountElems(document.pages)
        /\ \A j \in 1..Len(locations) : locations[j] = j
    /\ validations >= 2 =>
        \A j \in DOMAIN locations \cap DOMAIN previous :
            locations[j] = previous[j]

C13_Witness ==
    /\ validations >= 3
    /\ previous # <<>>
    /\ Len(locations) > Len(previous)

====
